---- MODULE Spec2Model ----
(***************************************************************************)
(* Model of the PDF -> key/value extraction pipeline of invoiceextract.py  *)
(* (invoice_langsmith.py and invoice_langsmith_v1.py hold the same         *)
(* functions; only the wording of the prompt differs).                     *)
(*                                                                         *)
(* Text is modelled as a sequence of lexemes: a page text or a model       *)
(* response is a tuple whose elements are whitespace characters, words,    *)
(* JSON punctuation, JSON scalars and quoted JSON strings.                 *)
(***************************************************************************)
EXTENDS Integers, Sequences, FiniteSets, TLC

\* ------------------------------------------------------------------ bounds
MaxCalls == 2
MaxPages == 3
MaxDocChars == 4
PipeMaxPages == 2

\* ------------------------------------------------------------- text helpers
Whitespace == {" ", "\n"}

SepToken == "\n"

Unset == <<"UNSET">>

RECURSIVE LStrip(_)
LStrip(s) ==
    IF s # <<>> /\ Head(s) \in Whitespace THEN LStrip(Tail(s)) ELSE s

RECURSIVE RStrip(_)
RStrip(s) ==
    IF s # <<>> /\ s[Len(s)] \in Whitespace
    THEN RStrip(SubSeq(s, 1, Len(s) - 1))
    ELSE s

\* Variant: nothing trimmed.
StripNoop(s) == s

\* str.strip(): leading and trailing whitespace removed, the rest kept.
Strip(s) == RStrip(LStrip(s))

\* a in b, for strings: a is a contiguous part of b.
Contains(b, a) ==
    \E i \in 0..(Len(b) - Len(a)) : SubSeq(b, i + 1, i + Len(a)) = a

\* str.count("\n\n"): non-overlapping occurrences, scanned left to right.
RECURSIVE CountFrom(_, _)
CountFrom(s, i) ==
    IF i + 1 > Len(s) THEN 0
    ELSE IF s[i] = SepToken /\ s[i + 1] = SepToken
         THEN 1 + CountFrom(s, i + 2)
         ELSE CountFrom(s, i + 1)

CountSeparators(s) == CountFrom(s, 1)

\* ------------------------------------------------------- extract_text_from_pdf
NonePage == <<"None">>

\* page.extract_text() or ""
PageText(p) == IF p = NonePage \/ p = <<>> THEN <<>> ELSE p

Separator == <<SepToken, SepToken>>

\* Variant: the page texts joined with nothing between them.
RECURSIVE JoinNoSeparator(_)
JoinNoSeparator(texts) ==
    IF texts = <<>> THEN <<>> ELSE Head(texts) \o JoinNoSeparator(Tail(texts))

\* "\n\n".join(all_text)
RECURSIVE Join(_)
Join(texts) ==
    IF texts = <<>> THEN <<>>
    ELSE IF Len(texts) = 1 THEN texts[1]
    ELSE texts[1] \o Separator \o Join(Tail(texts))

AllText(pages) == [i \in 1..Len(pages) |-> PageText(pages[i])]

ExtractedText(pages) == Strip(Join(AllText(pages)))

\* ---------------------------------------------------------------- build_prompt
\* The keys the prompt asks for (the schema lives in the prompt only).
Schema == {"invoice_number", "invoice_date", "customer_name", "total_amount", "currency"}

PromptHead == "You are an information extraction assistant. ... PDF TEXT: (open quotes)"

PromptTail == "(close quotes)"

BuildPrompt(pdf_text_in) == <<PromptHead>> \o pdf_text_in \o <<PromptTail>>

\* ------------------------------------------------------------------ json.loads
\* A JSON string literal is one lexeme; the table gives its content.
QuotedNames ==
    { <<"invoice_number", "\"invoice_number\"">>,
      <<"invoice_date", "\"invoice_date\"">>,
      <<"customer_name", "\"customer_name\"">>,
      <<"total_amount", "\"total_amount\"">>,
      <<"currency", "\"currency\"">>,
      <<"note", "\"note\"">>,
      <<"INV-001", "\"INV-001\"">>,
      <<"Acme", "\"Acme\"">>,
      <<"USD", "\"USD\"">> }

StringLexemes == {p[2] : p \in QuotedNames}

Quote(name) == (CHOOSE p \in QuotedNames : p[1] = name)[2]

Unquote(lexeme) == (CHOOSE p \in QuotedNames : p[2] = lexeme)[1]

ScalarLexemes == StringLexemes \cup {"null", "1", "100.5"}

\* A parsed value: null, a number or a string (its lexeme), a dict (pairs of key
\* and value) or a list (values in order); NoValue is not a value.
NoValue == [kind |-> "none", scalar |-> "", obj |-> {}, arr |-> <<>>]

ScalarValue(lexeme) == [kind |-> "scalar", scalar |-> lexeme, obj |-> {}, arr |-> <<>>]

ObjectValue(pairs) == [kind |-> "object", scalar |-> "", obj |-> pairs, arr |-> <<>>]

ArrayValue(items) == [kind |-> "array", scalar |-> "", obj |-> {}, arr |-> items]

NotWhitespace(t) == t \notin Whitespace

\* The outcome of parsing at a position: whether a value stands there, the value,
\* and the position after it.
NoParse == [ok |-> FALSE, value |-> NoValue, next |-> 0]

Parsed(value, next) == [ok |-> TRUE, value |-> value, next |-> next]

\* A dict keeps, of a repeated key, the last value.
PutMember(pairs, key, value) == {q \in pairs : q[1] # key} \cup {<<key, value>>}

RECURSIVE ParseValue(_, _), ParseMembers(_, _, _), ParseItems(_, _, _)

\* The value that starts at ts[i]: a scalar, an object or an array.
ParseValue(ts, i) ==
    IF i > Len(ts) THEN NoParse
    ELSE IF ts[i] \in ScalarLexemes THEN Parsed(ScalarValue(ts[i]), i + 1)
    ELSE IF ts[i] = "{"
         THEN IF i + 1 <= Len(ts) /\ ts[i + 1] = "}"
              THEN Parsed(ObjectValue({}), i + 2)
              ELSE ParseMembers(ts, i + 1, {})
    ELSE IF ts[i] = "["
         THEN IF i + 1 <= Len(ts) /\ ts[i + 1] = "]"
              THEN Parsed(ArrayValue(<<>>), i + 2)
              ELSE ParseItems(ts, i + 1, <<>>)
    ELSE NoParse

\* The members of an object from ts[i] on: string ":" value, then "," and more
\* members, or "}".
ParseMembers(ts, i, pairs) ==
    IF i + 1 > Len(ts) \/ ts[i] \notin StringLexemes \/ ts[i + 1] # ":" THEN NoParse
    ELSE LET v == ParseValue(ts, i + 2)
         IN  IF ~v.ok \/ v.next > Len(ts) THEN NoParse
             ELSE IF ts[v.next] = "}"
                  THEN Parsed(ObjectValue(PutMember(pairs, Unquote(ts[i]), v.value)),
                              v.next + 1)
             ELSE IF ts[v.next] = ","
                  THEN ParseMembers(ts, v.next + 1,
                                    PutMember(pairs, Unquote(ts[i]), v.value))
             ELSE NoParse

\* The elements of an array from ts[i] on: a value, then "," and more elements,
\* or "]".
ParseItems(ts, i, items) ==
    LET v == ParseValue(ts, i)
    IN  IF ~v.ok \/ v.next > Len(ts) THEN NoParse
        ELSE IF ts[v.next] = "]"
             THEN Parsed(ArrayValue(Append(items, v.value)), v.next + 1)
        ELSE IF ts[v.next] = ","
             THEN ParseItems(ts, v.next + 1, Append(items, v.value))
        ELSE NoParse

\* json.loads(text): the value, or NoValue where it raises JSONDecodeError (no
\* value at the start, or anything but whitespace after it).
JsonLoads(text) ==
    LET ts == SelectSeq(text, NotWhitespace)
        r == ParseValue(ts, 1)
    IN  IF r.ok /\ r.next = Len(ts) + 1 THEN r.value ELSE NoValue

Keys(value) == {p[1] : p \in value.obj}

\* The part of a text from its first "{" to its last "}" (empty when there is none).
BraceSpan(text) ==
    LET opens == {i \in 1..Len(text) : text[i] = "{"}
        closes == {i \in 1..Len(text) : text[i] = "}"}
    IN  IF opens = {} \/ closes = {} THEN <<>>
        ELSE LET a == CHOOSE i \in opens : \A j \in opens : i <= j
                 b == CHOOSE i \in closes : \A j \in closes : i >= j
             IN  SubSeq(text, a, b)

\* ------------------------------------------------------------------- inputs
Paths == {"invoice.pdf", "invoice1.pdf"}

Missing == [kind |-> "missing", pages |-> <<>>]

Corrupt == [kind |-> "corrupt", pages |-> <<>>]

Pdf(pages) == [kind |-> "pdf", pages |-> pages]

SeqsUpTo(S, n) == UNION {[1..k -> S] : k \in 0..n}

PageChars == {"a", "b", " ", "\n"}

\* The pages cut from the text s: page i is s from after ends[i - 1] up to ends[i];
\* a page without text is None where none says so, "" otherwise.
CutPages(s, ends, none) ==
    [i \in 1..Len(ends) |->
        LET from == IF i = 1 THEN 1 ELSE ends[i - 1] + 1
        IN  IF from > ends[i]
            THEN IF i \in none THEN NonePage ELSE <<>>
            ELSE SubSeq(s, from, ends[i])]

\* Page ends that cut all of s into n pages, in order.
PageEnds(s, n) ==
    {ends \in [1..n -> 0..Len(s)] :
        /\ \A i \in 1..(n - 1) : ends[i] <= ends[i + 1]
        /\ IF n = 0 THEN s = <<>> ELSE ends[n] = Len(s)}

EmptyPages(ends) ==
    {i \in 1..Len(ends) : ends[i] = IF i = 1 THEN 0 ELSE ends[i - 1]}

PipePages == {NonePage, <<>>, <<" ">>, <<"a">>}

PipeDocs == SeqsUpTo(PipePages, PipeMaxPages)

\* A filesystem in which at most the path p holds a file.
FsWith(p, f) == [q \in Paths |-> IF q = p THEN f ELSE Missing]

SchemaOrder ==
    <<"invoice_number", "invoice_date", "customer_name", "total_amount", "currency", "note">>

KeyPool == {SchemaOrder[i] : i \in 1..Len(SchemaOrder)}

ExampleValue(k) ==
    CASE k = "invoice_number" -> Quote("INV-001")
      [] k = "invoice_date"   -> "null"
      [] k = "customer_name"  -> Quote("Acme")
      [] k = "total_amount"   -> "100.5"
      [] k = "currency"       -> Quote("USD")
      [] OTHER                -> "1"

RECURSIVE RenderMembers(_)
RenderMembers(ks) ==
    IF ks = <<>> THEN <<>>
    ELSE <<Quote(Head(ks)), ":", ExampleValue(Head(ks))>>
         \o (IF Len(ks) = 1 THEN <<>> ELSE <<",">> \o RenderMembers(Tail(ks)))

InKeySet(K) == [k \in KeyPool |-> k \in K]

RenderObject(K) ==
    LET in == InKeySet(K)
        Member(k) == in[k]
    IN  <<"{">> \o RenderMembers(SelectSeq(SchemaOrder, Member)) \o <<"}">>

ObjectKeySets ==
    {K \in SUBSET KeyPool : Cardinality(K) <= 1 \/ Cardinality(Schema \ K) <= 1}

Cores ==
    {RenderObject(K) : K \in ObjectKeySets}
    \cup { <<>>,
           <<"Sorry">>,
           <<"Sorry", " ", "Sorry">>,
           <<"null">>,
           <<"1">>,
           <<"{">>,
           <<"}", "{">>,
           <<"{", Quote("currency"), ":">>,
           <<"{", Quote("currency"), ":", "1", ",", Quote("currency"), ":", "null", "}">>,
           <<"{", "\n", Quote("currency"), ":", " ", "null", "\n", "}">>,
           <<"[", "]">>,
           <<"[", "1", ",", "null", "]">>,
           <<"{", Quote("customer_name"), ":", "{", Quote("note"), ":", Quote("Acme"),
             "}", "}">>,
           <<"{", Quote("note"), ":", "[", "1", ",", "{", "}", "]", ",",
             Quote("currency"), ":", Quote("USD"), "}">>,
           <<"[", "[", "]", ",", "{", Quote("currency"), ":", "null", "}", "]">>,
           <<"[", "1", ",", "]">>,
           <<"{", Quote("note"), ":", "{", "}">> }

Prefixes == {<<>>, <<" ">>, <<"\n">>, <<"Here", " ">>}

Suffixes == {<<>>, <<"\n">>, <<" ", "Thanks">>}

\* Texts the model may answer with.
Texts == {a \o c \o b : a \in Prefixes, c \in Cores, b \in Suffixes}

Body(shape, content) == [shape |-> shape, content |-> content]

\* Bodies of the HTTP response: not JSON; JSON but no object; an object without
\* "message"; "message" no object; "message" without "content"; "content" null;
\* "content" a string.
Bodies ==
    {Body(sh, <<>>) : sh \in {"not_json", "array", "no_message", "message_not_object",
                               "no_content", "content_null"}}
    \cup {Body("content", t) : t \in Texts}

Statuses == {200, 304, 404, 500}

Responses == [status : Statuses, body : Bodies]

NoResponse == [status |-> 0, body |-> Body("none", <<>>)]

NoError == [type |-> "none", msg |-> <<>>]

Error(type, msg) == [type |-> type, msg |-> msg]

\* -------------------------------------------------------------------- state
VARIABLES
    fs,          \* the filesystem: path -> file
    pc,          \* where extract_key_values_from_pdf stands
    pdf_path,    \* its argument
    pdf_text,    \* its locals
    prompt,
    response,    \* locals of call_ollama_llama32
    model_text,
    result,      \* the value returned to the caller
    error,       \* the exception that reached the caller
    log,         \* the stages and calls this invocation has executed, in order
    calls,       \* invocations so far
    used,        \* paths the invocations were given
    passed,      \* invocations whose text extraction returned
    fileReads,   \* PdfReader opens so far
    httpCalls    \* requests.post calls so far

vars == <<fs, pc, pdf_path, pdf_text, prompt, response, model_text, result, error,
          log, calls, used, passed, fileReads, httpCalls>>

Fresh ==
    /\ pc = "idle"
    /\ pdf_path = ""
    /\ pdf_text = Unset
    /\ prompt = Unset
    /\ response = NoResponse
    /\ model_text = Unset
    /\ result = NoValue
    /\ error = NoError
    /\ log = <<>>
    /\ calls = 0
    /\ used = {}
    /\ passed = 0
    /\ fileReads = 0
    /\ httpCalls = 0

Init ==
    /\ fs \in {FsWith(p, f) : p \in Paths,
                              f \in {Missing, Corrupt} \cup {Pdf(d) : d \in PipeDocs}}
    /\ Fresh

\* Every document of at most MaxPages pages (each None, "" or a text) holding at
\* most MaxDocChars characters in all.
InitExtract ==
    /\ \E n \in 0..MaxPages : \E s \in SeqsUpTo(PageChars, MaxDocChars) :
          \E ends \in PageEnds(s, n) : \E none \in SUBSET EmptyPages(ends) :
             fs = FsWith("invoice.pdf", Pdf(CutPages(s, ends, none)))
    /\ Fresh

\* ------------------------------------------------------------------ actions
\* Variant: the exception is swallowed and the call returns with no value.
RaiseSwallowed(e) ==
    /\ pc' = "returned"
    /\ error' = NoError

\* An exception no frame catches: it reaches the caller as raised.
Raise(e) ==
    /\ pc' = "raised"
    /\ error' = e

\* extract_key_values_from_pdf(pdf_path) is entered: fresh locals.
Invoke(p) ==
    /\ pc \in {"idle", "returned", "raised"}
    /\ calls < MaxCalls
    /\ pc' = "extract_text_from_pdf"
    /\ pdf_path' = p
    /\ pdf_text' = Unset
    /\ prompt' = Unset
    /\ response' = NoResponse
    /\ model_text' = Unset
    /\ result' = NoValue
    /\ error' = NoError
    /\ log' = <<>>
    /\ calls' = calls + 1
    /\ used' = used \cup {p}
    /\ UNCHANGED <<fs, passed, fileReads, httpCalls>>

\* Variant: a missing file reads as a document without text.
ExtractTextMissingAsEmpty ==
    /\ pc = "extract_text_from_pdf"
    /\ log' = Append(log, "extract_text_from_pdf")
    /\ IF fs[pdf_path].kind = "missing"
       THEN /\ pdf_text' = <<>>
            /\ passed' = passed + 1
            /\ pc' = "build_prompt"
            /\ UNCHANGED <<error, fileReads>>
       ELSE /\ fileReads' = fileReads + 1
            /\ IF fs[pdf_path].kind = "corrupt"
               THEN /\ Raise(Error("PdfReadError", <<>>))
                    /\ UNCHANGED <<pdf_text, passed>>
               ELSE /\ pdf_text' = ExtractedText(fs[pdf_path].pages)
                    /\ passed' = passed + 1
                    /\ pc' = "build_prompt"
                    /\ UNCHANGED error
    /\ UNCHANGED <<fs, pdf_path, prompt, response, model_text, result, calls, used,
                   httpCalls>>

\* pdf_text = extract_text_from_pdf(pdf_path)
ExtractText ==
    /\ pc = "extract_text_from_pdf"
    /\ log' = Append(log, "extract_text_from_pdf")
    /\ IF fs[pdf_path].kind = "missing"
       THEN /\ Raise(Error("FileNotFoundError", <<"PDF not found: ", pdf_path>>))
            /\ UNCHANGED <<pdf_text, fileReads, passed>>
       ELSE /\ fileReads' = fileReads + 1
            /\ IF fs[pdf_path].kind = "corrupt"
               THEN /\ Raise(Error("PdfReadError", <<>>))
                    /\ UNCHANGED <<pdf_text, passed>>
               ELSE /\ pdf_text' = ExtractedText(fs[pdf_path].pages)
                    /\ passed' = passed + 1
                    /\ pc' = "build_prompt"
                    /\ UNCHANGED error
    /\ UNCHANGED <<fs, pdf_path, prompt, response, model_text, result, calls, used,
                   httpCalls>>

\* prompt = build_prompt(pdf_text)
BuildPromptStep ==
    /\ pc = "build_prompt"
    /\ log' = Append(log, "build_prompt")
    /\ prompt' = BuildPrompt(pdf_text)
    /\ pc' = "requests.post"
    /\ UNCHANGED <<fs, pdf_path, pdf_text, response, model_text, result, error, calls,
                   used, passed, fileReads, httpCalls>>

\* Variant: a failed connection is tried once more before giving up.
PostWithRetry ==
    /\ pc = "requests.post"
    /\ log' = Append(log, "requests.post")
    /\ \/ /\ Raise(Error("ConnectionError", <<>>))
          /\ httpCalls' = httpCalls + 2
          /\ UNCHANGED response
       \/ /\ \E r \in Responses : response' = r
          /\ httpCalls' = httpCalls + 1
          /\ pc' = "raise_for_status"
          /\ UNCHANGED error
    /\ UNCHANGED <<fs, pdf_path, pdf_text, prompt, model_text, result, calls, used,
                   passed, fileReads>>

\* response = requests.post(OLLAMA_URL, json=payload): one request; the endpoint
\* answers, or the connection fails.
Post ==
    /\ pc = "requests.post"
    /\ log' = Append(log, "requests.post")
    /\ httpCalls' = httpCalls + 1
    /\ \/ /\ Raise(Error("ConnectionError", <<>>))
          /\ UNCHANGED response
       \/ /\ \E r \in Responses : response' = r
          /\ pc' = "raise_for_status"
          /\ UNCHANGED error
    /\ UNCHANGED <<fs, pdf_path, pdf_text, prompt, model_text, result, calls, used,
                   passed, fileReads>>

\* Variant: only the 5xx statuses raise.
IsServerErrorOnly(status) == status >= 500 /\ status < 600

\* Response.raise_for_status() raises for the 4xx and 5xx statuses.
IsErrorStatus(status) == status >= 400 /\ status < 600

\* response.raise_for_status()
RaiseForStatus ==
    /\ pc = "raise_for_status"
    /\ log' = Append(log, "raise_for_status")
    /\ IF IsErrorStatus(response.status)
       THEN Raise(Error("HTTPError", <<>>))
       ELSE pc' = "response.json" /\ UNCHANGED error
    /\ UNCHANGED <<fs, pdf_path, pdf_text, prompt, response, model_text, result, calls,
                   used, passed, fileReads, httpCalls>>

\* Variant: a missing field defaults to an empty object's text instead of "".
ContentOfDefaultObject(body) ==
    IF body.shape = "content" THEN body.content ELSE <<"{", "}">>

\* data.get("message", {}).get("content", ""), where it does not raise.
ContentOf(body) == IF body.shape = "content" THEN body.content ELSE <<>>

\* data = response.json(); model_text = data.get("message", {}).get("content", "").strip()
ReadBody ==
    /\ pc = "response.json"
    /\ log' = Append(log, "response.json")
    /\ CASE response.body.shape = "not_json" ->
              Raise(Error("JSONDecodeError", <<>>)) /\ UNCHANGED model_text
         [] response.body.shape \in {"array", "message_not_object", "content_null"} ->
              Raise(Error("AttributeError", <<>>)) /\ UNCHANGED model_text
         [] OTHER ->
              /\ model_text' = Strip(ContentOf(response.body))
              /\ pc' = "json.loads"
              /\ UNCHANGED error
    /\ UNCHANGED <<fs, pdf_path, pdf_text, prompt, response, result, calls, used,
                   passed, fileReads, httpCalls>>

InvalidJsonPrefix ==
    <<"Model", " ", "did", " ", "not", " ", "return", " ", "valid", " ", "JSON.", " ",
      "Raw", " ", "output:", "\n">>

\* f"Model did not return valid JSON. Raw output:\n{model_text}"
InvalidJsonMessage(text) == InvalidJsonPrefix \o text

\* result = json.loads(model_text), ValueError for JSONDecodeError; return result
ParseModelText ==
    /\ pc = "json.loads"
    /\ log' = Append(log, "json.loads")
    /\ IF JsonLoads(model_text).kind = "none"
       THEN Raise(Error("ValueError", InvalidJsonMessage(model_text)))
            /\ UNCHANGED result
       ELSE /\ result' = JsonLoads(model_text)
            /\ pc' = "returned"
            /\ UNCHANGED error
    /\ UNCHANGED <<fs, pdf_path, pdf_text, prompt, response, model_text, calls, used,
                   passed, fileReads, httpCalls>>

Next ==
    \/ \E p \in Paths : Invoke(p)
    \/ ExtractText
    \/ BuildPromptStep
    \/ Post
    \/ RaiseForStatus
    \/ ReadBody
    \/ ParseModelText

Spec == Init /\ [][Next]_vars

\* extract_text_from_pdf alone, over every document of the bounds.
NextExtract ==
    \/ Invoke("invoice.pdf")
    \/ ExtractText

SpecExtract == InitExtract /\ [][NextExtract]_vars

\* ------------------------------------------------------------------- claims
Finished == pc \in {"returned", "raised"}

Did(stage) == \E i \in 1..Len(log) : log[i] = stage

\* The text the endpoint sent as the model's answer, before any trimming.
RawText == ContentOf(response.body)

\* C1: whenever the pipeline returns a result, the result is an object
\* whose key set is exactly the schema.
C1_KeySetEqualsSchema ==
    pc = "returned" => result.kind = "object" /\ Keys(result) = Schema

C1_Witness ==
    /\ pc = "returned"
    /\ result.kind = "object"
    /\ "note" \in Keys(result)
    /\ "currency" \notin Keys(result)
    /\ "invoice_number" \in Keys(result)

\* C2: an invocation on a path that does not exist raises FileNotFoundError with
\* no prompt built and no request sent; while every path used so far is missing,
\* the number of HTTP requests (and of file reads) is 0.
C2_MissingPathNoNetwork ==
    /\ (pc # "idle" /\ fs[pdf_path].kind = "missing") =>
          /\ pc \in {"extract_text_from_pdf", "raised"}
          /\ prompt = Unset
          /\ ~Did("build_prompt")
          /\ ~Did("requests.post")
          /\ (pc = "raised" => error.type = "FileNotFoundError" /\ result = NoValue)
    /\ (\A p \in used : fs[p].kind = "missing") => httpCalls = 0 /\ fileReads = 0

C2_Witness ==
    /\ pc = "raised"
    /\ fs[pdf_path].kind = "missing"
    /\ error = Error("FileNotFoundError", <<"PDF not found: ", "invoice.pdf">>)
    /\ calls = 2
    /\ httpCalls = 0

\* A valid JSON object with prose before or after it.
IsWrappedObject(text) ==
    /\ BraceSpan(text) # text
    /\ JsonLoads(BraceSpan(text)).kind = "object"

\* C3: when the trimmed response text is a JSON object surrounded by
\* prose, the pipeline returns that object.
C3_RecoversWrappedObject ==
    (Did("json.loads") /\ IsWrappedObject(model_text)) =>
        pc = "returned" /\ result = JsonLoads(BraceSpan(model_text))

C3_Witness ==
    /\ pc = "raised"
    /\ error.type = "ValueError"
    /\ IsWrappedObject(model_text)
    /\ Keys(JsonLoads(BraceSpan(model_text))) = Schema

HasBrace(text) == \E i \in 1..Len(text) : text[i] \in {"{", "}"}

\* C4: when the response text is prose without braces, the pipeline
\* raises ValueError and the error holds the response text as the endpoint sent it.
C4_ErrorHoldsOriginalText ==
    (Did("json.loads") /\ JsonLoads(RawText).kind = "none" /\ ~HasBrace(RawText)) =>
        /\ pc = "raised"
        /\ error.type = "ValueError"
        /\ Contains(error.msg, RawText)

C4_Witness ==
    /\ pc = "raised"
    /\ error.type = "ValueError"
    /\ ~HasBrace(RawText)
    /\ RawText = <<"Here", " ", "Sorry", " ", "Sorry", "\n">>

StageOrder ==
    <<"extract_text_from_pdf", "build_prompt", "requests.post", "raise_for_status",
      "response.json", "json.loads">>

\* The exceptions each stage or call can raise.
ErrorsOf(stage) ==
    CASE stage = "extract_text_from_pdf" -> {"FileNotFoundError", "PdfReadError"}
      [] stage = "requests.post"         -> {"ConnectionError"}
      [] stage = "raise_for_status"      -> {"HTTPError"}
      [] stage = "response.json"         -> {"JSONDecodeError", "AttributeError"}
      [] stage = "json.loads"            -> {"ValueError"}
      [] OTHER                           -> {}

\* C5: the stages run in the order extract text, build prompt, call model (post,
\* status check, body), parse; a call that raised stopped at the stage that
\* raised, gives the caller that stage's error and no result; a call that returned
\* ran every stage and carries no error.
C5_LinearFailFast ==
    /\ Len(log) <= Len(StageOrder)
    /\ log = SubSeq(StageOrder, 1, Len(log))
    /\ pc = "raised" =>
          /\ log # <<>>
          /\ error.type \in ErrorsOf(log[Len(log)])
          /\ error.type = "FileNotFoundError" =>
                error.msg = <<"PDF not found: ", pdf_path>>
          /\ error.type = "ValueError" =>
                error.msg = InvalidJsonPrefix \o model_text
          /\ result = NoValue
    /\ pc = "returned" =>
          /\ log = StageOrder
          /\ error = NoError
          /\ result # NoValue
    /\ ~Finished => error = NoError /\ result = NoValue

C5_Witness ==
    /\ pc = "raised"
    /\ error.type = "HTTPError"
    /\ log = SubSeq(StageOrder, 1, 4)
    /\ JsonLoads(RawText).kind = "object"
    /\ result = NoValue

\* C6: an invocation that got past text extraction made one file read and, once
\* it has finished, one HTTP request, whether it failed or not; so after N
\* finished invocations N' of which got past extraction there were N' requests,
\* and N reads and N requests when every one was given the same readable PDF.  An
\* invocation starts with no local left over from an earlier one.
C6_OneReadOneRequest ==
    /\ fileReads >= passed
    /\ fileReads <= calls
    /\ httpCalls = IF pc \in {"build_prompt", "requests.post"} THEN passed - 1 ELSE passed
    /\ (Finished /\ \A p \in used : fs[p].kind = "pdf") =>
          fileReads = calls /\ httpCalls = calls
    /\ pc = "extract_text_from_pdf" =>
          /\ pdf_text = Unset
          /\ prompt = Unset
          /\ response = NoResponse
          /\ model_text = Unset
          /\ result = NoValue
          /\ error = NoError

C6_Witness ==
    /\ pc = "raised"
    /\ error.type = "ConnectionError"
    /\ calls = 2
    /\ used = {"invoice.pdf"}
    /\ fileReads = 2
    /\ httpCalls = 2

\* C7 as claimed: a response whose status is not a 2xx status makes the client
\* raise before the body is read, and no result is returned for it.
C7_NonSuccessRaises ==
    (Did("raise_for_status") /\ ~(response.status >= 200 /\ response.status < 300)) =>
        /\ ~Did("response.json")
        /\ ~Did("json.loads")
        /\ pc = "raised"
        /\ error.type = "HTTPError"

\* C7 as amended: a response whose status is a 4xx or 5xx status makes the client
\* raise HTTPError before the body is read or parsed, and no result is returned
\* for it, whatever its body.
C7_ErrorStatusRaises ==
    (Did("raise_for_status") /\ response.status >= 400 /\ response.status <= 599) =>
        /\ ~Did("response.json")
        /\ ~Did("json.loads")
        /\ model_text = Unset
        /\ pc = "raised"
        /\ error.type = "HTTPError"
        /\ result = NoValue

C7_Witness ==
    /\ pc = "raised"
    /\ error.type = "HTTPError"
    /\ response.status = 404
    /\ Keys(JsonLoads(RawText)) = Schema

\* The pages of the document the invocation was given.
GivenPages == fs[pdf_path].pages

Texts8 == AllText(GivenPages)

HasExtractableText == \E i \in 1..Len(Texts8) : \E j \in 1..Len(Texts8[i]) :
                          Texts8[i][j] \notin Whitespace

HasText(t) == \E j \in 1..Len(t) : t[j] \notin Whitespace

\* The first and the last page both yield text that is not all whitespace.
EdgePagesHaveText ==
    Texts8 # <<>> /\ HasText(Texts8[1]) /\ HasText(Texts8[Len(Texts8)])

\* A page text with its own newlines marked, to tell them from the separators'.
MarkPage(t) == [j \in 1..Len(t) |-> IF t[j] = "\n" THEN "page-newline" ELSE t[j]]

Unmark(t) == [j \in 1..Len(t) |-> IF t[j] = "page-newline" THEN "\n" ELSE t[j]]

\* Blocks laid out in order with a blank-line separator between neighbours.
RECURSIVE Layout(_)
Layout(blocks) ==
    IF blocks = <<>> THEN <<>>
    ELSE IF Len(blocks) = 1 THEN blocks[1]
    ELSE blocks[1] \o <<"\n", "\n">> \o Layout(Tail(blocks))

Blank == {" ", "\n", "page-newline"}

\* A text from its first to its last element that is not whitespace.
InkSpan(t) ==
    LET ink == {j \in 1..Len(t) : t[j] \notin Blank}
    IN  IF ink = {} THEN <<>>
        ELSE SubSeq(t, CHOOSE j \in ink : \A k \in ink : j <= k,
                       CHOOSE j \in ink : \A k \in ink : j >= k)

\* What the result is expected to be, page newlines marked.
MarkedResult == InkSpan(Layout([i \in 1..Len(Texts8) |-> MarkPage(Texts8[i])]))

\* Some run of consecutive newlines holds two or more newlines of page texts.
DoubledPageNewlines(t) ==
    \E i \in 1..Len(t) : \E j \in (i + 1)..Len(t) :
        /\ t[i] = "page-newline"
        /\ t[j] = "page-newline"
        /\ \A k \in i..j : t[k] \in {"\n", "page-newline"}

\* C8 as claimed: for every PDF with extractable text, the number of blank-line
\* separators in the returned text, plus one, is the number of pages.
C8_SeparatorsCountPages ==
    (pc = "build_prompt" /\ HasExtractableText) =>
        CountSeparators(pdf_text) + 1 = Len(GivenPages)

\* C8 as amended: the returned text is the page blocks (empty for a page that
\* yields nothing) in page order with "\n\n" between neighbours, cut to the span
\* from its first to its last non-whitespace character.  For a PDF with
\* extractable text: when the first and the last page both yield non-whitespace
\* text, the separator count plus one is the page count exactly when no run of
\* consecutive newlines of the result holds two or more newlines of page texts;
\* when the first or the last page yields none and no run holds two such
\* newlines, the separator count plus one is less than the page count.
C8_SeparatorsCountWhenEdgesHaveText ==
    pc = "build_prompt" =>
        /\ pdf_text = Unmark(MarkedResult)
        /\ (HasExtractableText /\ EdgePagesHaveText) =>
              (CountSeparators(pdf_text) + 1 = Len(GivenPages)
                  <=> ~DoubledPageNewlines(MarkedResult))
        /\ (HasExtractableText /\ ~EdgePagesHaveText
                /\ ~DoubledPageNewlines(MarkedResult)) =>
              CountSeparators(pdf_text) + 1 < Len(GivenPages)

C8_Witness ==
    /\ pc = "build_prompt"
    /\ GivenPages = << <<" ", "a">>, NonePage, <<"b", "\n">> >>
    /\ pdf_text = <<"a", "\n", "\n", "\n", "\n", "b">>
    /\ CountSeparators(pdf_text) = 2

IsBlank(t) == \A j \in 1..Len(t) : t[j] \in Whitespace

EmptyDocument ==
    /\ pc # "idle"
    /\ fs[pdf_path].kind = "pdf"
    /\ \A i \in 1..Len(GivenPages) : GivenPages[i] = NonePage \/ IsBlank(GivenPages[i])

\* C9: for a document of no pages, or whose pages all yield nothing or whitespace,
\* text extraction returns the empty string without raising, the prompt is built
\* around the empty text, and the request is sent: such a call fails, if it does,
\* only at or after the request.
C9_EmptyDocumentGoesOn ==
    EmptyDocument =>
        /\ Did("extract_text_from_pdf") => pdf_text = <<>>
        /\ Did("build_prompt") => prompt = <<PromptHead, PromptTail>>
        /\ Finished => Did("build_prompt") /\ Did("requests.post") /\ httpCalls >= 1
        /\ pc = "raised" => error.type \notin {"FileNotFoundError", "PdfReadError"}

C9_Witness ==
    /\ EmptyDocument
    /\ Len(GivenPages) = 2
    /\ GivenPages[1] = <<" ">>
    /\ GivenPages[2] = NonePage
    /\ pc = "returned"
    /\ prompt = <<PromptHead, PromptTail>>

\* C10: a 2xx (or other not rejected) response whose body is an object without
\* "message", or whose "message" has no "content", gives the empty model text, and
\* the call ends with the ValueError of a text that is not JSON, with no result.
C10_MissingFieldIsEmptyText ==
    (Did("response.json") /\ response.body.shape \in {"no_message", "no_content"}) =>
        /\ model_text = <<>>
        /\ pc # "returned"
        /\ result = NoValue
        /\ Did("json.loads") =>
              /\ pc = "raised"
              /\ error.type = "ValueError"
              /\ error.msg = InvalidJsonPrefix

C10_Witness ==
    /\ pc = "raised"
    /\ response.body.shape = "no_message"
    /\ response.status = 200
    /\ error.type = "ValueError"

====
